---- MODULE Spec2Model ----
(***************************************************************************)
(* A model of the deno_otp one-time-password engines: the Hotp engine      *)
(* (src/hotp.ts), the Totp engine (src/totp.ts), their common base class   *)
(* Otp (src/otp.ts) and the helpers of util.ts (src/unnamed/part_003).     *)
(*                                                                         *)
(* One engine instance is modelled per behaviour; `kind` says which        *)
(* subclass was constructed.  Strings are sequences of one-character       *)
(* strings.  An optional argument is a sequence of length 0 (undefined)    *)
(* or 1 (the value given).                                                 *)
(***************************************************************************)
EXTENDS Integers, Sequences, FiniteSets, TLC

VARIABLES
  kind,               \* "hotp" or "totp": the subclass of the engine instance
  hmac,               \* moving factor -> truncated HMAC value under the engine's secret
  validationWindow,   \* Otp.#validationWindow
  counter,            \* Hotp.#counter
  stepSize,           \* Totp.#stepSize
  lastValidatedCode,  \* Totp.#lastValidatedCode (optional string)
  last,               \* the call that has just finished (arguments, outcome, pre-state), or idle
  accepted,           \* history: one earlier acceptance by a side-effecting validate call
  inflight,           \* caller -> its call under way when calls overlap (position, arguments, result)
  client,             \* the Hotp engine of the client of a session: its counter and the code it holds
  submitted,          \* history: the codes submitted to validate so far, where it is recorded
  completed           \* history: the side-effecting generate() calls that ran to their end while calls overlap

vars == <<kind, hmac, validationWindow, counter, stepSize, lastValidatedCode,
          last, accepted, inflight, client, submitted, completed>>

-----------------------------------------------------------------------------
(* Bounds of the model *)

\* The largest moving factor a call may probe, and the cap of the counter.
MaxFactor == 3
\* The largest validation window an engine is constructed with.
MaxWindow == 1
\* The step size (seconds) the Totp engine is constructed with.
ModelStepSize == 2

Factors == 0 .. MaxFactor

(* Program constants *)

Digits == 6

-----------------------------------------------------------------------------
(* Optional values *)

None == <<>>
Some(v) == <<v>>
\* JavaScript's  o ?? d
OrElse(o, d) == IF o = None THEN d ELSE o[1]

OptBool == {None, Some(TRUE), Some(FALSE)}

\* The sideEffects option as the model passes it: absent or false.
SideEffectOptions == {None, Some(FALSE)}

-----------------------------------------------------------------------------
(* util.ts *)

\* The do-while loop of numberToBytes.  `value & 0xff` is the value modulo 256
\* (two's complement), so for a negative value the loop reaches -1 and stays
\* there: the loop is followed until it ends or revisits a value.
RECURSIVE numberToBytesLoop(_, _, _)
numberToBytesLoop(value, preparedArray, seen) ==
  LET currentBytes == value % 256
      arr == <<currentBytes>> \o preparedArray
      next == (value - currentBytes) \div 256
  IN  IF next = 0 THEN [status |-> "done", bytes |-> arr]
      ELSE IF next \in seen THEN [status |-> "diverges", bytes |-> <<>>]
      ELSE numberToBytesLoop(next, arr, seen \cup {next})

\* The byteArrayLen argument is Some(n), or None for `false` (the array is of
\* the minimal length).
\* Mutant: a value that does not fit is cut to its low bytes.
numberToBytes_truncates(value, byteArrayLen) ==
  LET r == numberToBytesLoop(value, <<>>, {value})
      len == OrElse(byteArrayLen, Len(r.bytes))
      fillOffset == len - Len(r.bytes)
  IN  IF r.status = "diverges" THEN r
      ELSE IF fillOffset < 0
        THEN [status |-> "done",
              bytes |-> SubSeq(r.bytes, 1 - fillOffset, Len(r.bytes))]
      ELSE [status |-> "done",
            bytes |-> [i \in 1 .. fillOffset |-> 0] \o r.bytes]

numberToBytes(value, byteArrayLen) ==
  LET r == numberToBytesLoop(value, <<>>, {value})
      len == OrElse(byteArrayLen, Len(r.bytes))
      fillOffset == len - Len(r.bytes)
  IN  IF r.status = "diverges" THEN r
      ELSE IF fillOffset < 0 THEN [status |-> "throws", bytes |-> <<>>]
      ELSE [status |-> "done",
            bytes |-> [i \in 1 .. fillOffset |-> 0] \o r.bytes]

\* toUpperCase on the characters the model uses.
ToUpperCase(c) == IF c = "a" THEN "A" ELSE c

cleanUserInputFormat(input) ==
  LET noSpaces == SelectSeq(input, LAMBDA c : c # " ")
  IN  [i \in 1 .. Len(noSpaces) |-> ToUpperCase(noSpaces[i])]

-----------------------------------------------------------------------------
(* otp.ts *)

DigitChars == <<"0", "1", "2", "3", "4", "5", "6", "7", "8", "9">>

\* Number.prototype.toString for a non-negative integer.
RECURSIVE NumberToString(_)
NumberToString(n) ==
  IF n < 10 THEN <<DigitChars[n + 1]>>
  ELSE NumberToString(n \div 10) \o <<DigitChars[(n % 10) + 1]>>

RECURSIVE Join(_)
Join(parts) == IF parts = <<>> THEN <<>> ELSE Head(parts) \o Join(Tail(parts))

ZeroFill(code, minimumDigits) ==
  LET formattedCharArray == NumberToString(code)
      deltaDigits == minimumDigits - Len(formattedCharArray)
  IN  [i \in 1 .. (IF deltaDigits > 0 THEN deltaDigits ELSE 0) |-> "0"]
        \o formattedCharArray

\* Mutant: the last digit is grouped like the others.
formatCode_groupsLastDigit(code, minimumDigits) ==
  LET zeroFilledArray == ZeroFill(code, minimumDigits)
      n == Len(zeroFilledArray)
      grouping == IF n % 3 = 0 THEN 3 ELSE 4
  IN  Join([i \in 1 .. n |->
             IF i % grouping = 0
               THEN <<zeroFilledArray[i], " ">>
               ELSE <<zeroFilledArray[i]>>])

formatCode(code, minimumDigits) ==
  LET zeroFilledArray == ZeroFill(code, minimumDigits)
      n == Len(zeroFilledArray)
      grouping == IF n % 3 = 0 THEN 3 ELSE 4
  IN  Join([i \in 1 .. n |->
             IF (i - 1) # (n - 1) /\ i % grouping = 0
               THEN <<zeroFilledArray[i], " ">>
               ELSE <<zeroFilledArray[i]>>])

\* How the digest computation for a moving factor ends: "done", "diverges"
\* or "throws" (calculateHmacDigest encodes the factor with numberToBytes).
calculateHmacDigest(movingFactor) == numberToBytes(movingFactor, Some(8)).status

\* extractCodeFromHmacShaDigest(digest, digits) of the digest of movingFactor.
extractCode(movingFactor) == hmac[movingFactor]

\* generateCodeNoSideEffects(movingFactor, false): the code without grouping,
\* zero-padded to the digits of the engine.
generateRawCode(movingFactor) == ZeroFill(extractCode(movingFactor), Digits)

\* generateCodeNoSideEffects(movingFactor, formatCode)
generateCodeNoSideEffects(movingFactor, format) ==
  IF format THEN formatCode(extractCode(movingFactor), Digits)
  ELSE generateRawCode(movingFactor)

validateCodeNoSideEffects(code, movingFactor) ==
  cleanUserInputFormat(code) =
    cleanUserInputFormat(generateCodeNoSideEffects(movingFactor, TRUE))

-----------------------------------------------------------------------------
(* crypto.subtle *)

(* crypto.subtle: HMAC with SHA-1 (RFC 2104, FIPS 180-4).  A 32-bit word is  *)
(* the pair <<high half, low half>> of its 16-bit halves; a byte string is a  *)
(* sequence of numbers 0 .. 255.                                              *)

RECURSIVE BitAnd(_, _)
BitAnd(a, b) ==
  IF a = 0 \/ b = 0 THEN 0
  ELSE (a % 2) * (b % 2) + 2 * BitAnd(a \div 2, b \div 2)

BitXor(a, b) == a + b - 2 * BitAnd(a, b)

WordAnd(x, y) == <<BitAnd(x[1], y[1]), BitAnd(x[2], y[2])>>
WordXor(x, y) == <<BitXor(x[1], y[1]), BitXor(x[2], y[2])>>
WordNot(x) == <<65535 - x[1], 65535 - x[2]>>

\* Addition modulo 2^32.
WordAdd(x, y) ==
  LET lo == x[2] + y[2]
      hi == x[1] + y[1] + (lo \div 65536)
  IN  <<hi % 65536, lo % 65536>>

\* Rotation to the left by n bits, 0 < n < 16.
RotateLeft(x, n) ==
  <<((x[1] * (2 ^ n)) % 65536) + (x[2] \div (2 ^ (16 - n))),
    ((x[2] * (2 ^ n)) % 65536) + (x[1] \div (2 ^ (16 - n)))>>

\* Rotation to the left by 30 bits.
RotateLeft30(x) == RotateLeft(<<x[2], x[1]>>, 14)

Sha1InitialHash == <<<<26437, 8961>>, <<61389, 43913>>, <<39098, 56574>>, <<4146, 21622>>, <<50130, 57840>>>>

Sha1K(t) ==
  IF t < 20 THEN <<23170, 31129>> ELSE IF t < 40 THEN <<28377, 60321>> ELSE IF t < 60 THEN <<36635, 48348>> ELSE <<51810, 49622>>

Sha1F(t, b, c, d) ==
  IF t < 20 THEN WordXor(WordAnd(b, c), WordAnd(WordNot(b), d))
  ELSE IF t >= 40 /\ t < 60
    THEN WordXor(WordXor(WordAnd(b, c), WordAnd(b, d)), WordAnd(c, d))
  ELSE WordXor(WordXor(b, c), d)

\* The 16 words of a block of 64 bytes.
BlockWords(block) ==
  [i \in 1 .. 16 |->
     <<block[4 * i - 3] * 256 + block[4 * i - 2],
       block[4 * i - 1] * 256 + block[4 * i]>>]

\* The message schedule: the 16 words of the block extended by n words.
\* (The schedule and the rounds are computed by halves, the first half being
\* evaluated, by the test on it, before the second half starts; the result is
\* that of running them one after the other.)
RECURSIVE Sha1Extend(_, _)
Sha1Extend(w, n) ==
  IF n = 1
    THEN LET t == Len(w) + 1
         IN  Append(w, RotateLeft(WordXor(WordXor(w[t - 3], w[t - 8]),
                                          WordXor(w[t - 14], w[t - 16])), 1))
    ELSE LET firstHalf == Sha1Extend(w, n \div 2)
         IN  IF firstHalf = <<>> THEN firstHalf
             ELSE Sha1Extend(firstHalf, n - (n \div 2))

Sha1Schedule(w) == Sha1Extend(w, 64)

\* Round t on the working variables s = <<a, b, c, d, e>>.
Sha1Round(t, s, w) ==
  LET temp == WordAdd(WordAdd(WordAdd(WordAdd(RotateLeft(s[1], 5),
                                              Sha1F(t, s[2], s[3], s[4])),
                                      s[5]),
                              Sha1K(t)),
                      w[t + 1])
  IN  <<temp, s[1], RotateLeft30(s[2]), s[3], s[4]>>

\* The rounds from .. to - 1.
RECURSIVE Sha1Rounds(_, _, _, _)
Sha1Rounds(from, to, s, w) ==
  IF to = from + 1 THEN Sha1Round(from, s, w)
  ELSE LET mid == (from + to) \div 2
           firstHalf == Sha1Rounds(from, mid, s, w)
       IN  IF firstHalf = <<>> THEN firstHalf
           ELSE Sha1Rounds(mid, to, firstHalf, w)

Sha1Compress(h, block) ==
  LET s == Sha1Rounds(0, 80, h, Sha1Schedule(BlockWords(block)))
  IN  <<WordAdd(h[1], s[1]), WordAdd(h[2], s[2]), WordAdd(h[3], s[3]),
        WordAdd(h[4], s[4]), WordAdd(h[5], s[5])>>

RECURSIVE Sha1Blocks(_, _)
Sha1Blocks(h, bytes) ==
  IF bytes = <<>> THEN h
  ELSE Sha1Blocks(Sha1Compress(h, SubSeq(bytes, 1, 64)),
                  SubSeq(bytes, 65, Len(bytes)))

\* The padding of a message: a one bit, zeros, and the length in bits as 8 bytes.
Sha1Pad(msg) ==
  LET zeros == (119 - (Len(msg) % 64)) % 64
  IN  msg \o <<128>> \o [i \in 1 .. zeros |-> 0]
          \o numberToBytes(8 * Len(msg), Some(8)).bytes

WordBytes(x) == <<x[1] \div 256, x[1] % 256, x[2] \div 256, x[2] % 256>>

Sha1(msg) ==
  LET h == Sha1Blocks(Sha1InitialHash, Sha1Pad(msg))
  IN  WordBytes(h[1]) \o WordBytes(h[2]) \o WordBytes(h[3])
        \o WordBytes(h[4]) \o WordBytes(h[5])

\* crypto.subtle.sign("HMAC", key, data) with hash SHA-1.
HmacSha1(key, data) ==
  LET k0 == IF Len(key) > 64 THEN Sha1(key) ELSE key
      block == k0 \o [i \in 1 .. (64 - Len(k0)) |-> 0]
      ipad == [i \in 1 .. 64 |-> BitXor(block[i], 54)]
      opad == [i \in 1 .. 64 |-> BitXor(block[i], 92)]
  IN  Sha1(opad \o Sha1(ipad \o data))

-----------------------------------------------------------------------------
(* util.ts and otp.ts on a real secret *)

\* Uint8Array.prototype.slice(start, end): the end is clamped to the length.
Slice(bytes, start, end) ==
  LET stop == IF end > Len(bytes) THEN Len(bytes) ELSE end
  IN  IF start >= stop THEN <<>> ELSE SubSeq(bytes, start + 1, stop)

\* Mutant: bytes missing from the four are read as zero.
bytesToUInt32BE_zeroFills(bytes) ==
  LET four == bytes \o [i \in 1 .. (4 - Len(bytes)) |-> 0]
  IN  [status |-> "done",
       value |-> <<four[1] * 256 + four[2], four[3] * 256 + four[4]>>]

\* new DataView(bytes.buffer).getUint32(0): the first four bytes as a
\* big-endian 32-bit word <<high half, low half>>; a RangeError when the buffer
\* holds fewer than four bytes.
bytesToUInt32BE(bytes) ==
  IF Len(bytes) < 4 THEN [status |-> "throws", value |-> <<0, 0>>]
  ELSE [status |-> "done",
        value |-> <<bytes[1] * 256 + bytes[2], bytes[3] * 256 + bytes[4]>>]

\* Mutant: the four bytes are always taken from the start of the digest.
extractCodeFromHmacShaDigest_fixedOffset(digest, digits) ==
  LET digestAsInt == bytesToUInt32BE(Slice(digest, 0, 4))
      fullCode == (digestAsInt.value[1] % 32768) * 65536 + digestAsInt.value[2]
  IN  [status |-> digestAsInt.status, code |-> fullCode % (10 ^ digits)]

\* Mutant: the four bytes are read as a little-endian number.
extractCodeFromHmacShaDigest_littleEndian(digest, digits) ==
  IF digest = <<>> THEN [status |-> "throws", code |-> 0]
  ELSE LET dynamicOffset == digest[Len(digest)] % 16
           codeBytes == Slice(digest, dynamicOffset, dynamicOffset + 4)
           digestAsInt ==
             bytesToUInt32BE([i \in 1 .. Len(codeBytes) |->
                                codeBytes[Len(codeBytes) + 1 - i]])
           fullCode == (digestAsInt.value[1] % 32768) * 65536 + digestAsInt.value[2]
       IN  IF digestAsInt.status = "throws" THEN [status |-> "throws", code |-> 0]
           ELSE [status |-> "done", code |-> fullCode % (10 ^ digits)]

\* The four bytes at the offset given by the low four bits of the last byte,
\* as a big-endian number without its top bit, modulo 10^digits.  The result
\* is [status, code]: "throws" for an empty digest (digest.at gives undefined)
\* and when bytesToUInt32BE throws.
extractCodeFromHmacShaDigest(digest, digits) ==
  IF digest = <<>> THEN [status |-> "throws", code |-> 0]
  ELSE LET dynamicOffset == digest[Len(digest)] % 16
           codeBytes == Slice(digest, dynamicOffset, dynamicOffset + 4)
           digestAsInt == bytesToUInt32BE(codeBytes)
           fullCode == (digestAsInt.value[1] % 32768) * 65536 + digestAsInt.value[2]
       IN  IF digestAsInt.status = "throws" THEN [status |-> "throws", code |-> 0]
           ELSE [status |-> "done", code |-> fullCode % (10 ^ digits)]

trimWhitespaceAndAddBase32Padding(secret) ==
  LET cleaned == cleanUserInputFormat(secret)
      missing == 8 - (Len(cleaned) % 8)
      amountOfMissingPadding == IF missing = 8 THEN 0 ELSE missing
  IN  cleaned \o [i \in 1 .. amountOfMissingPadding |-> "="]

Base32Alphabet ==
  <<"A", "B", "C", "D", "E", "F", "G", "H", "I", "J", "K", "L", "M",
    "N", "O", "P", "Q", "R", "S", "T", "U", "V", "W", "X", "Y", "Z",
    "2", "3", "4", "5", "6", "7">>

\* decode of deps.ts (Base32, RFC 4648): five bits per character, the bytes
\* taken from the bit string first to last; the padding ends the text.
RECURSIVE Base32Decode(_, _, _)
Base32Decode(chars, buffer, nbits) ==
  IF chars = <<>> \/ Head(chars) = "=" THEN <<>>
  ELSE LET value == (CHOOSE i \in 1 .. 32 : Base32Alphabet[i] = Head(chars)) - 1
           b == buffer * 32 + value
           n == nbits + 5
       IN  IF n >= 8
             THEN <<b \div (2 ^ (n - 8))>>
                    \o Base32Decode(Tail(chars), b % (2 ^ (n - 8)), n - 8)
             ELSE Base32Decode(Tail(chars), b, n)

\* The secret the Otp constructor keeps: a string is taken as Base32 text.
OtpSecret(secret) ==
  IF secret.type = "string"
    THEN Base32Decode(trimWhitespaceAndAddBase32Padding(secret.value), 0, 0)
    ELSE secret.value

\* The truncated HMAC values of a secret for the moving factors 0 .. top.
HmacValues(secretBytes, top) ==
  LET values == [i \in 1 .. (top + 1) |->
                   extractCodeFromHmacShaDigest(
                     HmacSha1(secretBytes, numberToBytes(i - 1, Some(8)).bytes),
                     Digits).code]
      table == values \o <<>>
  IN  [f \in 0 .. top |-> table[f + 1]]

\* The secret, the moving factors and the codes of the test
\* "generate() is RFC compliant".
RfcSecretString ==
  [type |-> "bytes",
   value |-> <<49, 50, 51, 52, 53, 54, 55, 56, 57, 48,
               49, 50, 51, 52, 53, 54, 55, 56, 57, 48>>]

RfcSecretBase32 ==
  [type |-> "string",
   value |-> <<"G", "E", "Z", "D", "G", "N", "B", "V", "G", "Y", "3", "T", "Q", "O", "J", "Q",
               "G", "E", "Z", "D", "G", "N", "B", "V", "G", "Y", "3", "T", "Q", "O", "J", "Q">>]

RfcCodes ==
  <<<<"7", "5", "5", " ", "2", "2", "4">>,
    <<"2", "8", "7", " ", "0", "8", "2">>,
    <<"3", "5", "9", " ", "1", "5", "2">>,
    <<"9", "6", "9", " ", "4", "2", "9">>,
    <<"3", "3", "8", " ", "3", "1", "4">>,
    <<"2", "5", "4", " ", "6", "7", "6">>,
    <<"2", "8", "7", " ", "9", "2", "2">>,
    <<"1", "6", "2", " ", "5", "8", "3">>,
    <<"3", "9", "9", " ", "8", "7", "1">>,
    <<"5", "2", "0", " ", "4", "8", "9">>>>

RfcFactors == 0 .. (Len(RfcCodes) - 1)

-----------------------------------------------------------------------------
(* The secrets and the inputs of the model *)

\* Pairwise distinct code values, one per moving factor.
CodeAt(i) == ((i + 1) * 61728) % (10 ^ Digits)

DistinctCodes == [f \in Factors |-> CodeAt(f)]

\* The truncated HMAC values of an engine's secret: pairwise distinct over the
\* factors of the model, or with factor 1 or the last factor colliding with
\* factor 0.
HmacChoices ==
  {DistinctCodes} \cup
  {[f \in Factors |-> IF f = j THEN CodeAt(0) ELSE CodeAt(f)] :
     j \in {1, MaxFactor}}

\* Strings that are no code: the empty string, a string that is too short and
\* a string with a character that is no digit.
MalformedCodes ==
  {<<>>,
   SubSeq(ZeroFill(CodeAt(0), Digits), 1, Digits - 1),
   <<"a">> \o Tail(ZeroFill(CodeAt(0), Digits))}

\* The codes a caller submits: every code value, formatted (even factors) or
\* unformatted (odd factors), and the strings that are no code.
InputCodes ==
  {IF f % 2 = 0 THEN formatCode(CodeAt(f), Digits) ELSE ZeroFill(CodeAt(f), Digits) :
     f \in Factors} \cup MalformedCodes

ExplicitFactors == {None} \cup {Some(f) : f \in -1 .. MaxFactor}

\* Times (seconds) handed to the Totp engine: the first and the last second of
\* each of the steps -1 .. MaxFactor.
Times ==
  UNION {{step * ModelStepSize, step * ModelStepSize + ModelStepSize - 1} :
           step \in -1 .. MaxFactor}

-----------------------------------------------------------------------------
(* The record of the call that has just finished *)

Call(op, code, mf, se, vaw, status, valid, out, probed, matched) ==
  [op |-> op, code |-> code, mf |-> mf, se |-> se, vaw |-> vaw,
   status |-> status, valid |-> valid, out |-> out,
   probed |-> probed, matched |-> matched,
   preCounter |-> counter, preLvc |-> lastValidatedCode,
   preAccepted |-> accepted, preSubmitted |-> submitted]

Idle ==
  [op |-> "idle", code |-> <<>>, mf |-> None, se |-> None, vaw |-> None,
   status |-> "returned", valid |-> FALSE, out |-> <<>>,
   probed |-> {}, matched |-> None,
   preCounter |-> 0, preLvc |-> None, preAccepted |-> None,
   preSubmitted |-> None]

\* The caller takes the result of the finished call (its value, or the error
\* it threw); the engine is free for the next call.  A call that never
\* returns is never awaited.
Await ==
  /\ last.op # "idle"
  /\ last.status \in {"returned", "threw"}
  /\ last' = Idle
  /\ UNCHANGED <<kind, client, submitted, completed, hmac, validationWindow, counter, stepSize,
                 lastValidatedCode, accepted, inflight>>

Min(S) == CHOOSE x \in S : \A y \in S : x <= y

\* The loop of validate: the factors of `range` are probed in ascending order
\* until one matches.
FirstMatch(code, range) ==
  LET hits == {f \in range : validateCodeNoSideEffects(code, f)}
  IN  IF hits = {} THEN None ELSE Some(Min(hits))

Probed(range, matched) ==
  IF matched = None THEN range ELSE {f \in range : f <= matched[1]}

\* History: one acceptance by a side-effecting validate call is remembered as
\* [code, time, fresh]: the canonical code, the time of the latest
\* side-effecting validate call since (0 for Hotp), and whether no call has
\* finished since the acceptance.  Which acceptance is remembered is arbitrary;
\* for Hotp only acceptances against the internal counter are remembered.
\* A side-effecting validate at an earlier time than the one before it ends
\* the series, and the history is dropped.
Remember(code, time) ==
  Some([code |-> cleanUserInputFormat(code), time |-> time, fresh |-> TRUE])

Stale ==
  IF accepted = None THEN None ELSE Some([accepted[1] EXCEPT !.fresh = FALSE])

Aged(time) ==
  IF accepted = None \/ time < accepted[1].time THEN None
  ELSE Some([accepted[1] EXCEPT !.time = time, !.fresh = FALSE])

\* The history after a validate call.
Accepting(code, time, sideEffects, result) ==
  IF ~sideEffects THEN {Stale}
  ELSE {Aged(time)} \cup (IF result THEN {Remember(code, time)} ELSE {})

-----------------------------------------------------------------------------
(* hotp.ts *)

\* The largest moving factor the model knows the engine's code of.
LastFactor == Cardinality(DOMAIN hmac) - 1

\* Mutant: the movingFactor option is ignored.
HotpUsedMovingFactor_ignoresOption(mfOpt) == counter

HotpUsedMovingFactor(mfOpt) == OrElse(mfOpt, counter)

\* Mutant: the loop bound is taken exclusive (index < upperBound).
HotpUpperBound_exclusive(vawOpt) ==
  IF OrElse(vawOpt, TRUE) THEN validationWindow - 1 ELSE 0

HotpUpperBound(vawOpt) == IF OrElse(vawOpt, TRUE) THEN validationWindow ELSE 0

\* Mutant: the sideEffects option is read without its default.
HotpGenerateCounter_noDefault(mfOpt, seOpt) ==
  IF seOpt = Some(TRUE) THEN counter + 1 ELSE counter

\* Mutant: the counter is written as the value read before the await, plus one.
HotpGenerateCounter_writesBack(mfOpt, seOpt) ==
  IF OrElse(seOpt, TRUE)
    THEN Min({inflight[c].mf : c \in {d \in DOMAIN inflight : inflight[d].pc = "digest"}}
             \cup {counter}) + 1
    ELSE counter

HotpGenerateCounter(mfOpt, seOpt) ==
  IF OrElse(seOpt, TRUE) THEN counter + 1 ELSE counter

\* Mutant: the sideEffects option is ignored.
HotpValidateCounter_ignoresOption(seOpt, matched) ==
  IF matched # None THEN counter + 1 ELSE counter

\* Mutant: the counter is moved past the matched factor.
HotpValidateCounter_resync(seOpt, matched) ==
  IF OrElse(seOpt, TRUE) /\ matched # None THEN matched[1] + 1 ELSE counter

HotpValidateCounter(seOpt, matched) ==
  IF OrElse(seOpt, TRUE) /\ matched # None THEN counter + 1 ELSE counter

HotpGenerate(mfOpt, seOpt, fmtOpt) ==
  LET mf == HotpUsedMovingFactor(mfOpt)
  IN  /\ kind = "hotp"
      /\ last.op = "idle"
      /\ mf <= LastFactor
      /\ IF calculateHmacDigest(mf) # "done"
           THEN /\ last' = Call("generate", <<>>, mfOpt, seOpt, None,
                                "diverged", FALSE, <<>>, {}, None)
                /\ UNCHANGED <<counter, accepted>>
           ELSE /\ HotpGenerateCounter(mfOpt, seOpt) <= LastFactor
                /\ counter' = HotpGenerateCounter(mfOpt, seOpt)
                /\ last' = Call("generate", <<>>, mfOpt, seOpt, None, "returned",
                                FALSE,
                                generateCodeNoSideEffects(mf, OrElse(fmtOpt, TRUE)),
                                {}, None)
                /\ accepted' = Stale
      /\ UNCHANGED <<kind, client, submitted, completed, hmac, validationWindow, stepSize, lastValidatedCode, inflight>>

HotpValidate(code, mfOpt, seOpt, vawOpt) ==
  LET usedMovingFactor == HotpUsedMovingFactor(mfOpt)
      upperBound == HotpUpperBound(vawOpt)
      range == usedMovingFactor .. (usedMovingFactor + upperBound)
      matched == FirstMatch(code, range)
      codeIsValid == matched # None
  IN  /\ kind = "hotp"
      /\ last.op = "idle"
      /\ usedMovingFactor + upperBound <= LastFactor
      /\ IF calculateHmacDigest(usedMovingFactor) # "done"
           THEN /\ last' = Call("validate", code, mfOpt, seOpt, vawOpt,
                                "diverged", FALSE, <<>>, {usedMovingFactor}, None)
                /\ UNCHANGED <<counter, accepted>>
           ELSE /\ HotpValidateCounter(seOpt, matched) <= LastFactor
                /\ counter' = HotpValidateCounter(seOpt, matched)
                /\ last' = Call("validate", code, mfOpt, seOpt, vawOpt, "returned",
                                codeIsValid, <<>>, Probed(range, matched), matched)
                /\ accepted' \in Accepting(code, 0,
                                           OrElse(seOpt, TRUE) /\ mfOpt = None,
                                           codeIsValid)
      /\ UNCHANGED <<kind, client, submitted, completed, hmac, validationWindow, stepSize, lastValidatedCode, inflight>>

\* resetCounter starts a new series of calls: the history is cleared.
HotpResetCounter(c) ==
  /\ kind = "hotp"
  /\ last.op = "idle"
  /\ counter' = c
  /\ last' = Call("resetCounter", <<>>, Some(c), None, None, "returned",
                  FALSE, <<>>, {}, None)
  /\ accepted' = None
  /\ UNCHANGED <<kind, client, submitted, completed, hmac, validationWindow, stepSize, lastValidatedCode, inflight>>

HotpCalls ==
  \/ \E mfOpt \in ExplicitFactors, seOpt \in SideEffectOptions, fmtOpt \in {None, Some(FALSE)} :
       HotpGenerate(mfOpt, seOpt, fmtOpt)
  \/ \E code \in InputCodes, mfOpt \in ExplicitFactors,
        seOpt \in SideEffectOptions, vawOpt \in OptBool :
       HotpValidate(code, mfOpt, seOpt, vawOpt)
  \/ \E c \in 0 .. MaxFactor : HotpResetCounter(c)

-----------------------------------------------------------------------------
(* totp.ts *)

\* `seconds` is the time the caller passes as options.movingFactor, or the
\* clock reading Date.now() / 1000 when it passes none; whole seconds.
\* Mutant: the quotient is rounded to the nearest integer (Math.round).
calculateMovingFactor_rounds(step, seconds) == (2 * seconds + step) \div (2 * step)

calculateMovingFactor(step, seconds) == seconds \div step

\* Mutant: the validateAgainstWindow option is ignored.
TotpValidationWindow_ignoresOption(vawOpt) == validationWindow

TotpValidationWindow(vawOpt) ==
  IF vawOpt = Some(TRUE) THEN validationWindow ELSE 0

\* The moving factors the loop of validate visits: the negative ones are skipped.
TotpRange(base, window) ==
  {base + attempt : attempt \in (0 - window) .. window} \cap Nat

\* Mutant: no reuse check.
TotpIsReused_never(code) == FALSE

\* The reuse check of validate.
TotpIsReused(code) ==
  /\ lastValidatedCode # None
  /\ lastValidatedCode[1] # <<>>
  /\ lastValidatedCode[1] = cleanUserInputFormat(code)

\* Mutant: lastValidatedCode is written before the reuse check.
TotpStores_beforeReuseCheck(codeIsValid, reused, seOpt) ==
  codeIsValid /\ OrElse(seOpt, TRUE)

\* Whether validate writes lastValidatedCode: the code matched, was not
\* rejected as reused, and side effects are enabled.
TotpStores(codeIsValid, reused, seOpt) ==
  codeIsValid /\ ~reused /\ OrElse(seOpt, TRUE)

\* The moving factor whose code validate stores as lastValidatedCode.
TotpMarkerFactor(calculatedMovingFactor, matched) == calculatedMovingFactor

\* The sideEffects option is accepted and not used.
TotpGenerate(seconds, seOpt, fmtOpt) ==
  LET calculatedMovingFactor == calculateMovingFactor(stepSize, seconds)
  IN  /\ kind = "totp"
      /\ last.op = "idle"
      /\ calculatedMovingFactor <= MaxFactor
      /\ IF calculateHmacDigest(calculatedMovingFactor) # "done"
           THEN last' = Call("generate", <<>>, Some(seconds), seOpt, None,
                             "diverged", FALSE, <<>>, {}, None)
           ELSE last' = Call("generate", <<>>, Some(seconds), seOpt, None,
                             "returned", FALSE,
                             generateCodeNoSideEffects(calculatedMovingFactor,
                                                       OrElse(fmtOpt, TRUE)),
                             {}, None)
      /\ accepted' = Stale
      /\ UNCHANGED <<kind, client, submitted, completed, hmac, validationWindow, counter, stepSize,
                     lastValidatedCode, inflight>>

\* History: the code is added to the submitted codes, where they are recorded.
Submitting(code) ==
  IF submitted = None THEN None
  ELSE Some(submitted[1] \cup {cleanUserInputFormat(code)})

TotpValidate(code, seconds, seOpt, vawOpt) ==
  LET calculatedMovingFactor == calculateMovingFactor(stepSize, seconds)
      window == TotpValidationWindow(vawOpt)
      range == TotpRange(calculatedMovingFactor, window)
      matched == FirstMatch(code, range)
      codeIsValid == matched # None
      reused == codeIsValid /\ TotpIsReused(code)
      stores == TotpStores(codeIsValid, reused, seOpt)
      marker == TotpMarkerFactor(calculatedMovingFactor, matched)
  IN  /\ kind = "totp"
      /\ last.op = "idle"
      /\ calculatedMovingFactor + window <= MaxFactor
      /\ IF stores /\ calculateHmacDigest(marker) # "done"
           THEN /\ last' = Call("validate", code, Some(seconds), seOpt, vawOpt,
                                "diverged", FALSE, <<>>,
                                Probed(range, matched), matched)
                /\ UNCHANGED <<lastValidatedCode, accepted>>
           ELSE /\ lastValidatedCode' =
                     IF stores THEN Some(generateCodeNoSideEffects(marker, FALSE))
                     ELSE lastValidatedCode
                /\ last' = Call("validate", code, Some(seconds), seOpt, vawOpt,
                                "returned", codeIsValid /\ ~reused, <<>>,
                                Probed(range, matched), matched)
                /\ accepted' \in Accepting(code, seconds, OrElse(seOpt, TRUE),
                                           codeIsValid /\ ~reused)
      /\ submitted' = Submitting(code)
      /\ UNCHANGED <<kind, client, completed, hmac, validationWindow, counter,
                     stepSize, inflight>>

\* JavaScript's  a % b  for b > 0: the remainder has the sign of a.
JsRemainder(a, b) == IF a >= 0 THEN a % b ELSE 0 - ((0 - a) % b)

\* Mutant: the distance to the step boundary, 0 on the boundary itself.
secondsUntilNextWindow_zeroOnBoundary(step, seconds) ==
  (step - JsRemainder(seconds, step)) % step

\* Totp.secondsUntilNextWindow(stepSize, seconds), seconds in whole seconds.
secondsUntilNextWindow(step, seconds) == step - JsRemainder(seconds, step)

\* The step sizes the static method is called with, besides the engine's own.
StepSizes == 1 .. (ModelStepSize + 1)

\* The instance method passes the engine's step size to the static one; the
\* record of the call holds <<seconds, step>> as its arguments and the
\* result as the only element of `out`.
TotpSecondsUntilNextWindow(step, seconds) ==
  /\ kind = "totp"
  /\ last.op = "idle"
  /\ last' = Call("secondsUntilNextWindow", <<>>, <<seconds, step>>, None, None,
                  "returned", FALSE,
                  <<secondsUntilNextWindow(step, seconds)>>, {}, None)
  /\ accepted' = Stale
  /\ UNCHANGED <<kind, client, submitted, completed, hmac, validationWindow, counter, stepSize,
                 lastValidatedCode, inflight>>

\* The codes and times of the validate calls whose submitted codes are
\* recorded: the code of every step, at the first second of every step.
ReplayCodes == {ZeroFill(CodeAt(f), Digits) : f \in Factors}
ReplayTimes == {f * ModelStepSize : f \in Factors}

ReplayCalls ==
  \E code \in ReplayCodes, seconds \in ReplayTimes,
     seOpt \in SideEffectOptions, vawOpt \in OptBool :
    TotpValidate(code, seconds, seOpt, vawOpt)

TotpCalls ==
  \/ \E seconds \in Times, seOpt \in SideEffectOptions, fmtOpt \in {None, Some(FALSE)} :
       TotpGenerate(seconds, seOpt, fmtOpt)
  \/ \E step \in StepSizes \cup {stepSize}, seconds \in Times :
       TotpSecondsUntilNextWindow(step, seconds)
  \/ \E code \in InputCodes, seconds \in Times,
        seOpt \in SideEffectOptions, vawOpt \in OptBool :
       TotpValidate(code, seconds, seOpt, vawOpt)

-----------------------------------------------------------------------------
(* Overlapping calls *)

\* A session has a second Hotp engine, the client's; without a session there
\* is none.
NoClient == [counter |-> 0, code |-> None, unsubmitted |-> 0, skipped |-> FALSE,
             phase |-> "none"]

\* generate and validate are async functions: a call runs up to its first
\* await, is suspended while the digest is computed, and runs on when the
\* digest is there; in between, other calls on the same instance start or run
\* on.  Two callers each have at most one call under way; the results of a
\* round of calls are taken together (Collect) before the next round starts.
Callers == {"a", "b"}

Other(c) == CHOOSE d \in Callers : d # c

NoCall ==
  [op |-> "none", pc |-> "idle", code |-> <<>>, seconds |-> 0,
   se |-> None, vaw |-> None, mf |-> 0, matched |-> None,
   valid |-> FALSE, out |-> <<>>, after |-> "none"]

Suspended(c) == inflight[c].pc \in {"digest", "probing", "storing"}

\* What the other caller's call is doing when the call of c starts:
\* "suspended" (the calls overlap), "returned" (the call of c follows it) or
\* "none".
After(c) ==
  IF Suspended(Other(c)) THEN "suspended"
  ELSE IF inflight[Other(c)].pc = "returned" THEN "returned"
  ELSE "none"

\* Mutant: the counter is read when the call runs on, not when it is made.
HotpIssuedFactor_readAtResume(read) == counter

\* The moving factor of the code a generate call returns: the argument
\* options?.movingFactor ?? this.#counter, evaluated when the call is made.
HotpIssuedFactor(read) == read

\* Hotp.generate() up to the await of the digest.
HotpGenerateCall(c, seOpt) ==
  /\ kind = "hotp"
  /\ inflight[c].pc = "idle"
  /\ counter + Cardinality({d \in Callers : Suspended(d)}) + 1 <= MaxFactor
  /\ inflight' = [inflight EXCEPT ![c] =
                    [NoCall EXCEPT !.op = "generate", !.pc = "digest",
                                   !.se = seOpt,
                                   !.mf = HotpUsedMovingFactor(None),
                                   !.after = After(c)]]
  /\ UNCHANGED <<kind, client, submitted, completed, hmac, validationWindow, counter, stepSize,
                 lastValidatedCode, last, accepted>>

\* Hotp.generate() from the await on: the increment and the return.
HotpGenerateResume(c) ==
  LET call == inflight[c]
      issued == HotpIssuedFactor(call.mf)
  IN  /\ kind = "hotp"
      /\ call.op = "generate" /\ call.pc = "digest"
      /\ issued <= MaxFactor
      /\ counter' = HotpGenerateCounter(None, call.se)
      /\ inflight' = [inflight EXCEPT ![c] =
                        [call EXCEPT !.pc = "returned", !.mf = issued,
                                     !.out = generateCodeNoSideEffects(issued, TRUE)]]
      /\ completed' = IF OrElse(call.se, TRUE) THEN completed + 1 ELSE completed
      /\ UNCHANGED <<kind, client, submitted, hmac, validationWindow, stepSize,
                     lastValidatedCode, last, accepted>>

\* The times and codes of the overlapping Totp calls: the first second of the
\* steps 1 and 2, and the codes of these steps.
AsyncTimes == {ModelStepSize, 2 * ModelStepSize}
AsyncCodes == {ZeroFill(CodeAt(1), Digits), formatCode(CodeAt(2), Digits)}

\* Totp.validate() up to the first await of its loop.
TotpValidateCall(c, code, seconds, seOpt, vawOpt) ==
  LET calculatedMovingFactor == calculateMovingFactor(stepSize, seconds)
  IN  /\ kind = "totp"
      /\ inflight[c].pc = "idle"
      /\ calculatedMovingFactor + TotpValidationWindow(vawOpt) <= MaxFactor
      /\ inflight' = [inflight EXCEPT ![c] =
                        [NoCall EXCEPT !.op = "validate", !.pc = "probing",
                                       !.code = code, !.seconds = seconds,
                                       !.se = seOpt, !.vaw = vawOpt,
                                       !.mf = calculatedMovingFactor,
                                       !.after = After(c)]]
      /\ UNCHANGED <<kind, client, submitted, completed, hmac, validationWindow, counter, stepSize,
                     lastValidatedCode, last, accepted>>

\* Totp.validate() from the last await of the loop to the next await or the
\* return: the reuse check reads lastValidatedCode here.
TotpValidateCheck(c) ==
  LET call == inflight[c]
      range == TotpRange(call.mf, TotpValidationWindow(call.vaw))
      matched == FirstMatch(call.code, range)
      codeIsValid == matched # None
      reused == codeIsValid /\ TotpIsReused(call.code)
  IN  /\ kind = "totp"
      /\ call.op = "validate" /\ call.pc = "probing"
      /\ inflight' = [inflight EXCEPT ![c] =
                        IF TotpStores(codeIsValid, reused, call.se)
                          THEN [call EXCEPT !.pc = "storing", !.matched = matched]
                          ELSE [call EXCEPT !.pc = "returned", !.matched = matched,
                                            !.valid = codeIsValid /\ ~reused]]
      /\ UNCHANGED <<kind, client, submitted, completed, hmac, validationWindow, counter, stepSize,
                     lastValidatedCode, last, accepted>>

\* Totp.validate() from the await of the marker's code on: the write of
\* lastValidatedCode and the return.
TotpValidateStore(c) ==
  LET call == inflight[c]
  IN  /\ kind = "totp"
      /\ call.op = "validate" /\ call.pc = "storing"
      /\ lastValidatedCode' =
           Some(generateCodeNoSideEffects(TotpMarkerFactor(call.mf, call.matched),
                                          FALSE))
      /\ inflight' = [inflight EXCEPT ![c] =
                        [call EXCEPT !.pc = "returned", !.valid = TRUE]]
      /\ UNCHANGED <<kind, client, submitted, completed, hmac, validationWindow, counter, stepSize,
                     last, accepted>>

\* The callers take the results of the round.
Collect ==
  /\ \E c \in Callers : inflight[c].pc = "returned"
  /\ \A c \in Callers : inflight[c].pc \in {"idle", "returned"}
  /\ inflight' = [c \in Callers |-> NoCall]
  /\ UNCHANGED <<kind, client, submitted, completed, hmac, validationWindow, counter, stepSize,
                 lastValidatedCode, last, accepted>>

AsyncCalls ==
  \/ \E c \in Callers, seOpt \in SideEffectOptions : HotpGenerateCall(c, seOpt)
  \/ \E c \in Callers : HotpGenerateResume(c)
  \/ \E c \in Callers, code \in AsyncCodes, seconds \in AsyncTimes,
        seOpt \in SideEffectOptions, vawOpt \in {None, Some(TRUE)} :
       TotpValidateCall(c, code, seconds, seOpt, vawOpt)
  \/ \E c \in Callers : TotpValidateCheck(c)
  \/ \E c \in Callers : TotpValidateStore(c)

-----------------------------------------------------------------------------
(* Calls of the static helpers *)

\* The helpers of util.ts and Otp.formatCode are called on their own, with no
\* engine (kind = "util"); the record of the call holds the arguments in `mf`
\* (a digest in `code`) and the result in `out`.

\* The codes and digit counts formatCode is called with.
FormatCodes == {0, 7, 42, 123, 1234, 12345, 123456, 1234567, 12345678, 123456789}
FormatDigits == 1 .. 9

\* The digests handed to extractCodeFromHmacShaDigest: of the lengths of
\* SHA-1, SHA-256 and SHA-512 digests and of shorter lengths, the low four
\* bits of the last byte taking every value.
DigestLengths == {0, 1, 3, 4, 5, 18, 19, 20, 32, 64}
DigestSeeds == 0 .. 1
DigestOf(len, seed, low) ==
  [i \in 1 .. len |->
     IF i = len THEN (80 * seed + 16 + low) % 256
     ELSE (i * (58 * seed + 37) + 200 * seed) % 256]
Digests == {DigestOf(len, seed, low) :
              len \in DigestLengths, seed \in DigestSeeds, low \in 0 .. 15}
ExtractDigits == {1, 6, 8, 9}

\* The values and array lengths numberToBytes is called with.
EncodedValues ==
  {-1, 0, 1, 255, 256, 600, 65535, 65536, 16777215, 16777216, 2147483647}
ByteArrayLens == {None} \cup {Some(n) : n \in {1, 2, 3, 4, 8}}

UtilCall(op, code, args, status, out) ==
  /\ kind = "util"
  /\ last.op = "idle"
  /\ last' = Call(op, code, args, None, None, status, FALSE, out, {}, None)
  /\ UNCHANGED <<kind, client, submitted, completed, hmac, validationWindow,
                 counter, stepSize, lastValidatedCode, accepted, inflight>>

UtilFormatCode(code, minimumDigits) ==
  UtilCall("formatCode", <<>>, <<code, minimumDigits>>, "returned",
           formatCode(code, minimumDigits))

UtilExtractCode(digest, digits) ==
  LET r == extractCodeFromHmacShaDigest(digest, digits)
  IN  IF r.status = "throws"
        THEN UtilCall("extractCodeFromHmacShaDigest", digest, <<digits>>,
                      "threw", <<>>)
        ELSE UtilCall("extractCodeFromHmacShaDigest", digest, <<digits>>,
                      "returned", <<r.code>>)

UtilNumberToBytes(value, byteArrayLen) ==
  LET r == numberToBytes(value, byteArrayLen)
  IN  UtilCall("numberToBytes", <<>>, <<value, byteArrayLen>>,
               IF r.status = "done" THEN "returned"
               ELSE IF r.status = "throws" THEN "threw" ELSE "diverged",
               r.bytes)

UtilCalls ==
  \/ \E code \in FormatCodes, minimumDigits \in FormatDigits :
       UtilFormatCode(code, minimumDigits)
  \/ \E digest \in Digests, digits \in ExtractDigits :
       UtilExtractCode(digest, digits)
  \/ \E value \in EncodedValues, byteArrayLen \in ByteArrayLens :
       UtilNumberToBytes(value, byteArrayLen)

-----------------------------------------------------------------------------
(* A session of a client and a server *)

\* The flow of the test "Simulate HOTP auth flow": the engine of the model is
\* the server's; the client has a Hotp engine of its own with the same secret
\* and the same first counter.  The client generates codes, submits the one it
\* holds or drops it for the next, and the server validates what it is sent.
\* `unsubmitted` counts the codes dropped since the last submission, `skipped`
\* says whether any code was ever dropped.
NewClient == [counter |-> 0, code |-> None, unsubmitted |-> 0, skipped |-> FALSE,
              phase |-> "idle"]

\* client.generate(): the code of the client's counter, and the counter moves
\* on.  The client drops at most validationWindow codes between two
\* submissions.
ClientGenerate ==
  /\ kind = "hotp"
  /\ client.phase \in {"idle", "holding"}
  /\ client.counter <= LastFactor
  /\ client.phase = "holding" => client.unsubmitted < validationWindow
  /\ client' = [counter |-> client.counter + 1,
                code |-> Some(generateCodeNoSideEffects(client.counter, TRUE)),
                unsubmitted |-> IF client.phase = "holding"
                                  THEN client.unsubmitted + 1
                                  ELSE client.unsubmitted,
                skipped |-> client.skipped \/ client.phase = "holding",
                phase |-> "holding"]
  /\ UNCHANGED <<kind, submitted, completed, hmac, validationWindow, counter,
                 stepSize, lastValidatedCode, last, accepted, inflight>>

\* The client sends the code it holds.
ClientSubmit ==
  /\ client.phase = "holding"
  /\ client' = [client EXCEPT !.phase = "sent"]
  /\ UNCHANGED <<kind, submitted, completed, hmac, validationWindow, counter,
                 stepSize, lastValidatedCode, last, accepted, inflight>>

\* server.validate(code) on the code that was sent.
ServerValidate ==
  /\ client.phase = "sent"
  /\ HotpValidate(client.code[1], None, None, None)

\* The client takes the answer.
ClientReceive ==
  /\ client.phase = "sent"
  /\ last.op = "validate"
  /\ last' = Idle
  /\ client' = [client EXCEPT !.phase = "idle", !.code = None, !.unsubmitted = 0]
  /\ UNCHANGED <<kind, submitted, completed, hmac, validationWindow, counter,
                 stepSize, lastValidatedCode, accepted, inflight>>

SessionCalls == ClientGenerate \/ ClientSubmit \/ ServerValidate \/ ClientReceive

-----------------------------------------------------------------------------
(* Construction *)

InitHotp ==
  /\ kind = "hotp"
  /\ hmac \in HmacChoices
  /\ validationWindow \in 0 .. MaxWindow
  /\ counter = 0
  /\ stepSize = ModelStepSize
  /\ lastValidatedCode = None
  /\ last = Idle
  /\ accepted = None
  /\ inflight = [c \in Callers |-> NoCall]
  /\ client = NoClient
  /\ submitted = None
  /\ completed = 0

\* The lastValidatedCode option: absent, a formatted code or an unformatted one.
InitialMarkers ==
  {None, Some(formatCode(CodeAt(0), Digits)), Some(ZeroFill(CodeAt(1), Digits))}

\* new Hotp(secret) with the secret of RFC 4226 as bytes or as Base32 text.
InitRfc ==
  /\ kind = "hotp"
  /\ \E secret \in {RfcSecretString, RfcSecretBase32} :
       hmac = HmacValues(OtpSecret(secret), Len(RfcCodes) - 1)
  /\ validationWindow \in 0 .. MaxWindow
  /\ counter = 0
  /\ stepSize = ModelStepSize
  /\ lastValidatedCode = None
  /\ last = Idle
  /\ accepted = None
  /\ inflight = [c \in Callers |-> NoCall]
  /\ client = NoClient
  /\ submitted = None
  /\ completed = 0

InitTotp ==
  /\ kind = "totp"
  /\ hmac \in HmacChoices
  /\ validationWindow \in 0 .. MaxWindow
  /\ counter = 0
  /\ stepSize = ModelStepSize
  /\ lastValidatedCode \in InitialMarkers
  /\ last = Idle
  /\ accepted = None
  /\ inflight = [c \in Callers |-> NoCall]
  /\ client = NoClient
  /\ submitted = None
  /\ completed = 0

\* new Hotp(secret, options) for the client and for the server.
InitSession ==
  /\ kind = "hotp"
  /\ hmac \in HmacChoices
  /\ validationWindow \in 0 .. MaxWindow
  /\ counter = 0
  /\ stepSize = ModelStepSize
  /\ lastValidatedCode = None
  /\ last = Idle
  /\ accepted = None
  /\ inflight = [c \in Callers |-> NoCall]
  /\ client = NewClient
  /\ submitted = None
  /\ completed = 0

\* new Totp(secret, options) without a lastValidatedCode; the submitted codes
\* are recorded.
InitReplay ==
  /\ kind = "totp"
  /\ hmac = DistinctCodes
  /\ validationWindow \in 0 .. MaxWindow
  /\ counter = 0
  /\ stepSize = ModelStepSize
  /\ lastValidatedCode = None
  /\ last = Idle
  /\ accepted = None
  /\ inflight = [c \in Callers |-> NoCall]
  /\ client = NoClient
  /\ submitted = Some({})
  /\ completed = 0

\* No engine: the static helpers are called.
InitUtil ==
  /\ kind = "util"
  /\ hmac = DistinctCodes
  /\ validationWindow = 0
  /\ counter = 0
  /\ stepSize = ModelStepSize
  /\ lastValidatedCode = None
  /\ last = Idle
  /\ accepted = None
  /\ inflight = [c \in Callers |-> NoCall]
  /\ client = NoClient
  /\ submitted = None
  /\ completed = 0

\* An options object is a function from the keys it holds to optional
\* values: a key may be absent, or present with the value undefined (None).
\* options?.key
Get(options, key) == IF key \in DOMAIN options THEN options[key] ELSE None

\* { ...defaultOptions, ...options }: every own key of options, the ones with
\* the value undefined included, replaces the key of defaultOptions.
Spread(defaultOptions, options) ==
  [k \in DOMAIN defaultOptions \cup DOMAIN options |->
     IF k \in DOMAIN options THEN options[k] ELSE defaultOptions[k]]

\* The class fields of Otp are initialised to 6, 0 and SHA-1; the constructor
\* overwrites a field when the option is not undefined.
OtpConstructor(options) ==
  [digits |-> OrElse(Get(options, "digits"), 6),
   validationWindow |-> OrElse(Get(options, "validationWindow"), 0),
   algorithm |-> OrElse(Get(options, "algorithm"), "SHA-1")]

HotpDefaultOptions ==
  [algorithm |-> Some("SHA-1"), digits |-> Some(Digits), validationWindow |-> Some(100)]

HotpConstructor(options) ==
  [otp |-> OtpConstructor(Spread(HotpDefaultOptions, options)),
   counter |-> OrElse(Get(options, "counter"), 0),
   stepSize |-> 0,
   lastValidatedCode |-> None]

TotpDefaultOptions ==
  [algorithm |-> Some("SHA-1"), digits |-> Some(Digits), validationWindow |-> Some(1)]

TotpConstructor(options) ==
  [otp |-> OtpConstructor(Spread(TotpDefaultOptions, options)),
   counter |-> 0,
   stepSize |-> OrElse(Get(options, "stepSize"), 30),
   lastValidatedCode |-> Get(options, "lastValidatedCode")]

\* The options objects the constructors are called with: for every key, the
\* key is absent, undefined or holds a value.
Absent == <<"no", "key">>

Picks(values) == {Absent, None} \cup {Some(v) : v \in values}

OptionsOf(choice) ==
  [k \in {key \in DOMAIN choice : choice[key] # Absent} |-> choice[k]]

HotpOptionChoices ==
  {OptionsOf([validationWindow |-> w, counter |-> c, digits |-> d, algorithm |-> a]) :
     w \in Picks(0 .. MaxWindow), c \in Picks(0 .. 1),
     d \in Picks({Digits}), a \in Picks({"SHA-1"})}

TotpOptionChoices ==
  {OptionsOf([validationWindow |-> w, stepSize |-> z, lastValidatedCode |-> m,
              digits |-> d, algorithm |-> Some("SHA-1")]) :
     w \in Picks(0 .. MaxWindow), z \in Picks({ModelStepSize}),
     m \in Picks({ZeroFill(CodeAt(1), Digits)}), d \in Picks({Digits})}

\* new Hotp(secret, options) and new Totp(secret, options): the record of the
\* call holds the options in `mf` and the fields of Otp in `out`.
InitNew ==
  \E k \in {"hotp", "totp"} :
    \E options \in IF k = "hotp" THEN HotpOptionChoices ELSE TotpOptionChoices :
      LET engine == IF k = "hotp" THEN HotpConstructor(options)
                    ELSE TotpConstructor(options)
      IN  /\ kind = k
          /\ hmac = DistinctCodes
          /\ validationWindow = engine.otp.validationWindow
          /\ counter = engine.counter
          /\ stepSize = engine.stepSize
          /\ lastValidatedCode = engine.lastValidatedCode
          /\ last = [Idle EXCEPT !.op = "new", !.mf = options, !.out = engine.otp]
          /\ accepted = None
          /\ inflight = [c \in Callers |-> NoCall]
          /\ client = NoClient
          /\ submitted = None
          /\ completed = 0

Init == InitHotp \/ InitTotp

NextHotp == HotpCalls \/ Await
NextTotp == TotpCalls \/ Await
Next == HotpCalls \/ TotpCalls \/ Await
NextAsync == AsyncCalls \/ Collect
NextUtil == UtilCalls \/ Await
NextReplay == ReplayCalls \/ Await

SpecHotp == InitHotp /\ [][NextHotp]_vars
SpecTotp == InitTotp /\ [][NextTotp]_vars
Spec == Init /\ [][Next]_vars
SpecAsync == Init /\ [][NextAsync]_vars
SpecRfc == InitRfc /\ [][NextHotp]_vars
SpecUtil == InitUtil /\ [][NextUtil]_vars
SpecNew == InitNew /\ [][Next]_vars
SpecSession == InitSession /\ [][SessionCalls]_vars
SpecReplay == InitReplay /\ [][NextReplay]_vars

-----------------------------------------------------------------------------
(* Vocabulary of the properties *)

\* The code derived at moving factor f, as its string of digits.
CodeDigits(f) == ZeroFill(hmac[f], Digits)

\* The submitted code of the finished call, spaces removed.
SubmittedDigits == SelectSeq(last.code, LAMBDA c : c # " ")

SideEffectsOn == OrElse(last.se, TRUE)

HotpCall(op) == kind = "hotp" /\ last.op = op
TotpCall(op) == kind = "totp" /\ last.op = op
Returned == last.status = "returned"

\* The base moving factor of the finished call.
HotpBase == OrElse(last.mf, last.preCounter)
TotpBase == last.mf[1] \div stepSize

\* The submitted code is the code of factor f and of no factor of S.
CodeOfOnly(f, S) ==
  /\ f \in Factors
  /\ SubmittedDigits = CodeDigits(f)
  /\ \A g \in S \cap Factors : hmac[g] # hmac[f]

-----------------------------------------------------------------------------
(* C1 - HOTP forward window *)

\* C1: a Hotp validate with window scanning enabled (the default) returns true
\* exactly when the submitted code is the code of some factor in [b, b+W],
\* b being the explicit moving factor or else the counter; the code of b+W is
\* accepted, and a code of b+W+1 or of a factor below b that differs from the
\* codes of the range is rejected.
C1_HotpForwardWindow ==
  (HotpCall("validate") /\ Returned /\ OrElse(last.vaw, TRUE)) =>
    LET b == HotpBase
        W == validationWindow
    IN  /\ last.valid <=> \E f \in b .. (b + W) : SubmittedDigits = CodeDigits(f)
        /\ SubmittedDigits = CodeDigits(b + W) => last.valid
        /\ CodeOfOnly(b + W + 1, b .. (b + W)) => ~last.valid
        /\ \A g \in 0 .. (b - 1) : CodeOfOnly(g, b .. (b + W)) => ~last.valid

\* The code of the last factor of a window of at least one step is accepted.
C1_Witness ==
  /\ HotpCall("validate") /\ Returned /\ OrElse(last.vaw, TRUE)
  /\ validationWindow >= 1
  /\ last.matched = Some(HotpBase + validationWindow)
  /\ last.valid

-----------------------------------------------------------------------------
(* C2 - HOTP one-time use *)

\* C2: once a side-effecting validate against the internal counter has
\* accepted a code, every later such validate of the same code returns false,
\* the codes of the factors of the model being pairwise distinct.
C2_HotpOneTimeUse ==
  (/\ HotpCall("validate") /\ Returned
   /\ last.mf = None /\ SideEffectsOn
   /\ hmac = DistinctCodes
   /\ last.preAccepted # None
   /\ last.preAccepted[1].code = SubmittedDigits)
  => ~last.valid

-----------------------------------------------------------------------------
(* C3 - TOTP replay rejection *)

\* C3: after a side-effecting Totp validate of a code at time t has returned
\* true, the validate of the same code at the same time that follows it
\* immediately returns false (checked for the secret whose codes are pairwise
\* distinct, so that no acceptance rests on a collision).
C3_TotpReplayRejected ==
  (/\ TotpCall("validate") /\ Returned
   /\ hmac = DistinctCodes
   /\ last.preAccepted # None
   /\ last.preAccepted[1].fresh
   /\ last.preAccepted[1].code = SubmittedDigits
   /\ last.preAccepted[1].time = last.mf[1])
  => ~last.valid

-----------------------------------------------------------------------------
(* C4 - TOTP at-most-one acceptance *)

\* C4: over a series of side-effecting Totp validate calls at non-decreasing
\* times, a code that was accepted once is not accepted again (checked for
\* the secret whose codes are pairwise distinct).
C4_TotpAtMostOneAcceptance ==
  (/\ TotpCall("validate") /\ Returned /\ SideEffectsOn
   /\ hmac = DistinctCodes
   /\ last.preAccepted # None
   /\ last.preAccepted[1].code = SubmittedDigits
   /\ last.preAccepted[1].time <= last.mf[1])
  => ~last.valid

-----------------------------------------------------------------------------
(* C5 - TOTP symmetric window *)

\* C5: with window scanning enabled and no prior validated code, a Totp
\* validate at time t returns true exactly when the submitted code is the code
\* of some step s >= 0 with base-W <= s <= base+W, base = floor(t/S); negative
\* steps are never probed, also when the base step is negative.
C5_TotpSymmetricWindow ==
  (TotpCall("validate") /\ last.vaw = Some(TRUE) /\ last.preLvc = None) =>
    LET base == TotpBase
        W == validationWindow
    IN  /\ (Returned /\ last.valid) <=>
             \E s \in (base - W) .. (base + W) :
               s >= 0 /\ SubmittedDigits = CodeDigits(s)
        /\ \A f \in last.probed : f >= 0

-----------------------------------------------------------------------------
(* C6 - window scanning is the default *)

\* C6: a validate call that passes no validateAgainstWindow option probes the
\* whole validation window: it returns true exactly when the submitted code
\* is the code of a factor of counter .. counter+W (Hotp) or of a step of
\* base-W .. base+W (Totp, no prior validated code).
C6_WindowScanningByDefault ==
  /\ (HotpCall("validate") /\ Returned /\ last.vaw = None) =>
       (last.valid <=>
          \E f \in HotpBase .. (HotpBase + validationWindow) :
            SubmittedDigits = CodeDigits(f))
  /\ (/\ TotpCall("validate") /\ Returned /\ last.vaw = None
      /\ last.preLvc = None /\ TotpBase >= 0) =>
       (last.valid <=>
          \E s \in (TotpBase - validationWindow) .. (TotpBase + validationWindow) :
            s \in Factors /\ SubmittedDigits = CodeDigits(s))

-----------------------------------------------------------------------------
(* C7 - no-window exactness *)

\* C7: with validateAgainstWindow set to false, validate on either engine
\* probes no factor but the base factor, returns true only if the submitted
\* code is the code of the base factor, and rejects a code of base+1 or base-1
\* that differs from it.
C7_NoWindowExactness ==
  ((HotpCall("validate") \/ TotpCall("validate")) /\ last.vaw = Some(FALSE)) =>
    LET base == IF kind = "hotp" THEN HotpBase ELSE TotpBase
    IN  /\ last.probed \subseteq {base}
        /\ last.valid => (Returned /\ base >= 0 /\ SubmittedDigits = CodeDigits(base))
        /\ CodeOfOnly(base + 1, {base}) => ~last.valid
        /\ CodeOfOnly(base - 1, {base}) => ~last.valid

\* An engine with a window of at least one step rejects the code of base+1.
C7_Witness ==
  /\ (HotpCall("validate") \/ TotpCall("validate")) /\ last.vaw = Some(FALSE)
  /\ Returned
  /\ validationWindow >= 1
  /\ CodeOfOnly((IF kind = "hotp" THEN HotpBase ELSE TotpBase) + 1,
                {IF kind = "hotp" THEN HotpBase ELSE TotpBase})
  /\ (IF kind = "hotp" THEN HotpBase ELSE TotpBase) >= 0
  /\ ~last.valid

-----------------------------------------------------------------------------
(* C8 - an explicit moving factor bypasses the counter *)

\* C8: a Hotp generate or validate call that is given an explicit moving
\* factor leaves the counter unchanged.
C8_ExplicitFactorKeepsCounter ==
  ((HotpCall("generate") \/ HotpCall("validate")) /\ last.mf # None) =>
    counter = last.preCounter

-----------------------------------------------------------------------------
(* C9 - HOTP generate advances the counter *)

\* C9: a side-effecting Hotp generate without an explicit moving factor
\* returns the code of the counter value held before the call and leaves the
\* counter one higher.
C9_GenerateAdvancesCounter ==
  (HotpCall("generate") /\ last.mf = None /\ SideEffectsOn) =>
    /\ Returned
    /\ SelectSeq(last.out, LAMBDA c : c # " ") = CodeDigits(last.preCounter)
    /\ counter = last.preCounter + 1

\* The second of two such calls in a row: it returns the code of factor 1.
C9_Witness ==
  /\ HotpCall("generate") /\ last.mf = None /\ SideEffectsOn
  /\ last.preCounter = 1 /\ counter = 2
  /\ SelectSeq(last.out, LAMBDA c : c # " ") = CodeDigits(1)

-----------------------------------------------------------------------------
(* C10 - HOTP counter monotonicity *)

\* C10: every Hotp generate or validate call leaves the counter unchanged or
\* one higher, and a successful side-effecting validate leaves it exactly one
\* higher, whichever factor of the window matched.
C10_CounterMonotone ==
  [][(kind = "hotp" /\ last'.op \in {"generate", "validate"}) =>
       /\ counter' \in {counter, counter + 1}
       /\ (last'.op = "validate" /\ last'.valid /\ OrElse(last'.se, TRUE)) =>
            counter' = counter + 1]_vars

\* A side-effecting validate that matched ahead of its base factor.
C10_Witness ==
  /\ HotpCall("validate") /\ Returned /\ last.valid /\ SideEffectsOn
  /\ last.matched # None /\ last.matched[1] > HotpBase
  /\ counter = last.preCounter + 1

-----------------------------------------------------------------------------
(* C11 - state unchanged on failed validation *)

\* C11: a validate call that returns false leaves the counter (Hotp) and
\* lastValidatedCode (Totp) as they were, both when no probed factor matched
\* and when a Totp match was rejected as a replay.
C11_FailedValidationKeepsState ==
  ((HotpCall("validate") \/ TotpCall("validate")) /\ Returned /\ ~last.valid) =>
    /\ counter = last.preCounter
    /\ lastValidatedCode = last.preLvc

\* A side-effecting Totp validate whose match, found ahead of the base step,
\* was rejected as a replay.
C11_Witness ==
  /\ TotpCall("validate") /\ Returned /\ ~last.valid /\ SideEffectsOn
  /\ last.matched # None /\ last.matched[1] # TotpBase
  /\ lastValidatedCode = last.preLvc

-----------------------------------------------------------------------------
(* C12 - side effects can be disabled *)

\* C12: a generate or validate call made with sideEffects false leaves the
\* counter and lastValidatedCode unchanged, also when the validation succeeds,
\* and Totp generate never changes lastValidatedCode.
C12_SideEffectsDisabled ==
  /\ (last.op \in {"generate", "validate"} /\ last.se = Some(FALSE)) =>
       /\ counter = last.preCounter
       /\ lastValidatedCode = last.preLvc
  /\ TotpCall("generate") => lastValidatedCode = last.preLvc

\* A Hotp validate with sideEffects false that accepted the code.
C12_Witness ==
  /\ HotpCall("validate") /\ Returned /\ last.valid
  /\ last.se = Some(FALSE)
  /\ counter = last.preCounter

-----------------------------------------------------------------------------
(* C13 - the TOTP replay marker records the accepted code *)

\* C13: when a side-effecting Totp validate returns true, lastValidatedCode
\* afterwards is the space-free code of the step that matched, which is the
\* canonical form of the submitted code, also when the match was found at a
\* window step other than the base step.
C13_MarkerIsAcceptedCode ==
  (TotpCall("validate") /\ Returned /\ last.valid /\ SideEffectsOn) =>
    /\ lastValidatedCode = Some(CodeDigits(last.matched[1]))
    /\ lastValidatedCode = Some(cleanUserInputFormat(last.code))

-----------------------------------------------------------------------------
(* C16 - determinism *)

\* C16: the code a generate call returns for an explicit moving factor is the
\* code the engine's secret derives at that factor (grouped or not), whatever
\* the counter and lastValidatedCode are and whatever calls came before, and
\* no call changes what the secret derives.
C16_Determinism ==
  [][/\ hmac' = hmac
     /\ (last'.op = "generate" /\ last'.status = "returned" /\ last'.mf # None) =>
          LET f == IF kind = "hotp" THEN last'.mf[1] ELSE last'.mf[1] \div stepSize
          IN  /\ f \in DOMAIN hmac
              /\ last'.out \in {formatCode(hmac[f], Digits), ZeroFill(hmac[f], Digits)}]_vars

\* A Hotp generate with an explicit factor other than the counter, after the
\* counter has moved.
C16_Witness ==
  /\ HotpCall("generate") /\ Returned /\ last.mf # None
  /\ last.preCounter > 0 /\ last.mf[1] # last.preCounter
  /\ last.out = formatCode(hmac[last.mf[1]], Digits)

-----------------------------------------------------------------------------
(* C17 - TOTP time step *)

\* C17: Totp generate at time t returns the code of the step s with
\* s*S <= t < (s+1)*S (floor division, never rounding), so all times of one
\* step give the same code.
C17_TotpTimeStep ==
  (TotpCall("generate") /\ Returned) =>
    \E s \in Factors :
      /\ s * stepSize <= last.mf[1]
      /\ last.mf[1] < (s + 1) * stepSize
      /\ SelectSeq(last.out, LAMBDA c : c # " ") = CodeDigits(s)

\* A generate at the last second of a step after step 0.
C17_Witness ==
  /\ TotpCall("generate") /\ Returned
  /\ last.mf[1] >= stepSize
  /\ last.mf[1] % stepSize = stepSize - 1
  /\ SelectSeq(last.out, LAMBDA c : c # " ") = CodeDigits(last.mf[1] \div stepSize)

-----------------------------------------------------------------------------
(* C18 - secondsUntilNextWindow *)

\* C18: for a step size S > 0 and a time t >= 0, secondsUntilNextWindow
\* returns S - (t mod S), a value of 1 .. S (S on a step boundary), t plus the
\* result is the first time after t at which floor(t/S) is higher, and the
\* call changes no engine state.
C18_SecondsUntilNextWindow ==
  (TotpCall("secondsUntilNextWindow") /\ last.mf[1] >= 0) =>
    LET t == last.mf[1]
        S == last.mf[2]
        r == last.out[1]
    IN  /\ Returned
        /\ r = S - (t % S)
        /\ r \in 1 .. S
        /\ (t % S = 0) => r = S
        /\ (t + r) \div S = (t \div S) + 1
        /\ \A u \in t .. (t + r - 1) : u \div S = t \div S
        /\ counter = last.preCounter
        /\ lastValidatedCode = last.preLvc

\* A call on a step boundary after time 0 with a step of more than a second.
C18_Witness ==
  /\ TotpCall("secondsUntilNextWindow")
  /\ last.mf[1] > 0 /\ last.mf[2] > 1
  /\ last.mf[1] % last.mf[2] = 0
  /\ last.out = <<last.mf[2]>>

-----------------------------------------------------------------------------
(* C19 - a validation failure is a value *)

\* C19: for every submitted string and every non-negative base moving factor,
\* validate on either engine completes with a boolean, and the boolean is
\* false when the string is the code of no probed factor or equals the last
\* validated code (a replay).
C19_FailureIsAValue ==
  ((HotpCall("validate") \/ TotpCall("validate")) /\
   (IF kind = "hotp" THEN HotpBase ELSE TotpBase) >= 0) =>
    /\ Returned
    /\ last.valid \in BOOLEAN
    /\ (\A f \in last.probed : cleanUserInputFormat(last.code) # CodeDigits(f))
         => ~last.valid
    /\ (kind = "totp" /\ last.preLvc = Some(cleanUserInputFormat(last.code)))
         => ~last.valid

\* A string that is no code was submitted and false came back.
C19_Witness ==
  /\ (HotpCall("validate") \/ TotpCall("validate"))
  /\ (IF kind = "hotp" THEN HotpBase ELSE TotpBase) >= 0
  /\ last.code \in MalformedCodes
  /\ last.probed # {}
  /\ Returned /\ ~last.valid

-----------------------------------------------------------------------------
(* C14 - generate races under overlapping calls *)

BothReturned(op) ==
  \A c \in Callers : inflight[c].op = op /\ inflight[c].pc = "returned"

\* C14: of two side-effecting Hotp generate() calls without an explicit moving
\* factor on one instance, the one that starts while the other is suspended
\* returns the code of the same moving factor as the other (one code is issued
\* twice), and the one that starts after the other has returned does not: it
\* returns the code of the next factor.
C14_GenerateRace ==
  (kind = "hotp" /\ BothReturned("generate")) =>
    \A c \in Callers :
      LET mine == inflight[c]
          other == inflight[Other(c)]
      IN  (OrElse(mine.se, TRUE) /\ OrElse(other.se, TRUE)) =>
            /\ mine.after = "suspended" =>
                 /\ mine.mf = other.mf
                 /\ mine.out = other.out
                 /\ counter = mine.mf + 2
            /\ mine.after = "returned" =>
                 /\ mine.mf = other.mf + 1
                 /\ counter = mine.mf + 1

\* Two overlapping generate() calls have returned the same code.
C14_Witness ==
  /\ kind = "hotp" /\ BothReturned("generate")
  /\ \A c \in Callers : OrElse(inflight[c].se, TRUE)
  /\ inflight["b"].after = "suspended"
  /\ inflight["a"].out = inflight["b"].out
  /\ inflight["a"].mf = inflight["b"].mf
  /\ counter = inflight["a"].mf + 2

-----------------------------------------------------------------------------
(* C15 - replay protection under overlapping and sequential calls *)

\* Two overlapping validate calls of the same code at the same time, both
\* accepted.
TotpRaceAccepted ==
  /\ kind = "totp" /\ BothReturned("validate")
  /\ inflight["b"].after = "suspended"
  /\ inflight["a"].code = inflight["b"].code
  /\ inflight["a"].seconds = inflight["b"].seconds
  /\ inflight["a"].valid /\ inflight["b"].valid

\* C15: of two side-effecting Totp validate calls of the same correct code
\* with the same arguments, made strictly one after the other, the second
\* returns false (only overlapping calls can both return true); checked for
\* the secret whose codes are pairwise distinct.
C15_SequentialReplayRejected ==
  (kind = "totp" /\ BothReturned("validate") /\ hmac = DistinctCodes) =>
    \A c \in Callers :
      LET second == inflight[c]
          first == inflight[Other(c)]
      IN  (/\ second.after = "returned"
           /\ second.code = first.code
           /\ second.seconds = first.seconds
           /\ second.vaw = first.vaw
           /\ OrElse(first.se, TRUE) /\ OrElse(second.se, TRUE)
           /\ first.valid)
          => ~second.valid

-----------------------------------------------------------------------------
(* C20 - RFC 4226 test vectors *)

\* C20: a Hotp engine with the secret "12345678901234567890", 6 digits and
\* SHA-1 generates for the moving factors 0 .. 9 the codes 755224, 287082,
\* 359152, 969429, 338314, 254676, 287922, 162583, 399871, 520489 (grouped
\* in threes, or without the space when formatting is off), and the Base32
\* text of the secret gives the engine the same secret as the raw bytes.
C20_RfcVectors ==
  /\ OtpSecret(RfcSecretBase32) = OtpSecret(RfcSecretString)
  /\ (HotpCall("generate") /\ Returned) =>
       /\ HotpBase \in RfcFactors
       /\ last.out \in {RfcCodes[HotpBase + 1],
                        SelectSeq(RfcCodes[HotpBase + 1], LAMBDA ch : ch # " ")}

\* The code of the last moving factor of the vectors was generated.
C20_Witness ==
  /\ HotpCall("generate") /\ Returned
  /\ HotpBase = 9
  /\ last.out = <<"5", "2", "0", " ", "4", "8", "9">>

-----------------------------------------------------------------------------
(* C21 - code formatting *)

WithoutSpaces(s) == SelectSeq(s, LAMBDA ch : ch # " ")

\* The number a string of digits denotes.
RECURSIVE DecimalValue(_)
DecimalValue(s) ==
  IF s = <<>> THEN 0
  ELSE 10 * DecimalValue(SubSeq(s, 1, Len(s) - 1))
         + (CHOOSE i \in 0 .. 9 : DigitChars[i + 1] = s[Len(s)])

UtilCalled(op) == kind = "util" /\ last.op = op

\* C21: formatCode(c, d) returns the digits of c, zero-padded on the left to
\* at least d digits, with a single space after every 3rd digit when the
\* padded length is divisible by 3 and after every 4th otherwise, no space at
\* the start or the end; removing the spaces gives the zero-padded digits, so
\* the formatted and the unformatted code have one canonical form.
C21_FormatCode ==
  UtilCalled("formatCode") =>
    LET c == last.mf[1]
        d == last.mf[2]
        out == last.out
        padded == WithoutSpaces(out)
        n == Len(padded)
        g == IF n % 3 = 0 THEN 3 ELSE 4
    IN  /\ Returned
        /\ \A k \in 1 .. n : \E i \in 1 .. 10 : padded[k] = DigitChars[i]
        /\ DecimalValue(padded) = c
        /\ n >= d
        /\ (n > d /\ n > 1) => padded[1] # "0"
        /\ \A k \in 1 .. Len(out) : (out[k] = " ") <=> (k % (g + 1) = 0)
        /\ Len(out) = n + ((n - 1) \div g)
        /\ out[1] # " " /\ out[Len(out)] # " "
        /\ cleanUserInputFormat(out) = cleanUserInputFormat(padded)
        /\ padded = ZeroFill(c, d)

\* format(12345, 6) = "012 345" and format(12345, 8) = "0001 2345".
C21_Witness ==
  /\ UtilCalled("formatCode")
  /\ last.mf[1] = 12345
  /\ \/ last.mf[2] = 6 /\ last.out = <<"0", "1", "2", " ", "3", "4", "5">>
     \/ last.mf[2] = 8 /\ last.out = <<"0", "0", "0", "1", " ", "2", "3", "4", "5">>

-----------------------------------------------------------------------------
(* C22 - dynamic truncation *)

\* C22: for a digest of 20, 32 or 64 bytes, extractCodeFromHmacShaDigest
\* takes offset = last byte & 0x0F, so that the bytes offset .. offset+3 lie
\* inside the digest, and returns the big-endian number of these four bytes,
\* its top bit cleared, modulo 10^digits: a number of 0 .. 10^digits - 1.
C22_DynamicTruncation ==
  (UtilCalled("extractCodeFromHmacShaDigest") /\ Len(last.code) \in {20, 32, 64}) =>
    LET digest == last.code
        digits == last.mf[1]
        offset == BitAnd(digest[Len(digest)], 15)
        value == (digest[offset + 1] % 128) * 16777216 + digest[offset + 2] * 65536
                   + digest[offset + 3] * 256 + digest[offset + 4]
    IN  /\ offset \in 0 .. 15
        /\ offset + 4 <= Len(digest)
        /\ Returned
        /\ last.out = <<value % (10 ^ digits)>>
        /\ last.out[1] \in 0 .. ((10 ^ digits) - 1)

\* A SHA-1 digest whose four bytes are its last four, the first of them with
\* its top bit set.
C22_Witness ==
  /\ UtilCalled("extractCodeFromHmacShaDigest") /\ Returned
  /\ Len(last.code) = 20
  /\ last.code[20] % 16 = 15
  /\ last.code[16] >= 128
  /\ last.out # <<>>

-----------------------------------------------------------------------------
(* C23 - malformed digests *)

\* C23: extractCodeFromHmacShaDigest throws, and returns no code, when the
\* digest is empty and when it is shorter than offset + 4 bytes; it returns a
\* code only when the four bytes lie inside the digest.
C23_MalformedDigestRejected ==
  UtilCalled("extractCodeFromHmacShaDigest") =>
    LET digest == last.code
        short == \/ digest = <<>>
                 \/ Len(digest) < BitAnd(digest[Len(digest)], 15) + 4
    IN  /\ short => (last.status = "threw" /\ last.out = <<>>)
        /\ Returned => ~short

\* A digest of five bytes with the offset 3: two bytes are left of the four.
C23_Witness ==
  /\ UtilCalled("extractCodeFromHmacShaDigest")
  /\ Len(last.code) = 5
  /\ last.code[5] % 16 = 3
  /\ last.status = "threw"

-----------------------------------------------------------------------------
(* C24 - moving-factor encoding *)

\* The least number of bytes that hold v.
RECURSIVE ByteLength(_)
ByteLength(v) == IF v < 256 THEN 1 ELSE 1 + ByteLength(v \div 256)

\* The number a sequence of bytes denotes, the first byte the highest.
RECURSIVE BigEndianValue(_)
BigEndianValue(bytes) ==
  IF bytes = <<>> THEN 0
  ELSE 256 * BigEndianValue(SubSeq(bytes, 1, Len(bytes) - 1)) + bytes[Len(bytes)]

\* C24: for a non-negative v that fits in the requested length (8 by
\* default), numberToBytes returns exactly that many bytes, whose big-endian
\* value is v (zero bytes on the left, 0 as zero bytes only); for a v whose
\* minimal byte length exceeds the requested length it throws; with the
\* length `false` it returns the bytes of the minimal length.
C24_NumberToBytes ==
  (UtilCalled("numberToBytes") /\ last.mf[1] >= 0) =>
    LET v == last.mf[1]
        byteArrayLen == OrElse(last.mf[2], ByteLength(v))
    IN  IF ByteLength(v) <= byteArrayLen
          THEN /\ Returned
               /\ Len(last.out) = byteArrayLen
               /\ \A i \in 1 .. byteArrayLen : last.out[i] \in 0 .. 255
               /\ BigEndianValue(last.out) = v
          ELSE last.status = "threw" /\ last.out = <<>>

\* numberToBytes(600) = [0, 0, 0, 0, 0, 0, 2, 88].
C24_Witness ==
  /\ UtilCalled("numberToBytes") /\ Returned
  /\ last.mf = <<600, Some(8)>>
  /\ last.out = <<0, 0, 0, 0, 0, 0, 2, 88>>

-----------------------------------------------------------------------------
(* C25 - construction defaults *)

\* The value the options give for a key, or the default when the key is
\* absent or undefined.
Given(options, key, default) == OrElse(Get(options, key), default)

\* C25: an engine constructed without a value for an option has the default
\* for it (validationWindow 100 for Hotp and 1 for Totp, digits 6, algorithm
\* SHA-1, counter 0, step size 30), both when the key is absent and when it
\* is present with the value undefined; a value that is given is kept.
C25_ConstructionDefaults ==
  last.op = "new" =>
    /\ validationWindow =
         Given(last.mf, "validationWindow", IF kind = "hotp" THEN 100 ELSE 1)
    /\ last.out.digits = Given(last.mf, "digits", 6)
    /\ last.out.algorithm = Given(last.mf, "algorithm", "SHA-1")
    /\ kind = "hotp" => counter = Given(last.mf, "counter", 0)
    /\ kind = "totp" => stepSize = Given(last.mf, "stepSize", 30)

-----------------------------------------------------------------------------
(* C26 - HOTP drift tolerance over a session *)

\* C26: in a session in which the client drops at most W generated codes
\* between two submissions (W the server's window), the server accepts every
\* code the client submits; when the client never dropped a code, the two
\* counters are equal after every accepted submission.
C26_SessionDriftTolerated ==
  (kind = "hotp" /\ client.phase = "sent" /\ last.op = "validate") =>
    /\ Returned
    /\ last.valid
    /\ ~client.skipped => counter = client.counter

-----------------------------------------------------------------------------
(* C27 - no false replay rejection *)

\* C27: a Totp validate of a code that matches a step of the probed window
\* and was never submitted to the engine before returns true, whatever codes
\* were accepted earlier (the codes of the steps being pairwise distinct).
C27_NoFalseReplayRejection ==
  (/\ TotpCall("validate")
   /\ hmac = DistinctCodes
   /\ last.preSubmitted # None
   /\ last.matched # None
   /\ cleanUserInputFormat(last.code) \notin last.preSubmitted[1])
  => (Returned /\ last.valid)

-----------------------------------------------------------------------------
(* C28 - canonical replay marker *)

\* C28: lastValidatedCode of a Totp engine is undefined or a code without
\* spaces, the value of the construction option included, so that validate
\* rejects as a replay a matching code that equals the marker up to spacing.
C28_CanonicalMarker ==
  kind = "totp" =>
    /\ lastValidatedCode # None =>
         cleanUserInputFormat(lastValidatedCode[1]) = lastValidatedCode[1]
    /\ (/\ last.op = "validate" /\ last.matched # None
        /\ last.preLvc # None /\ last.preLvc[1] # <<>>
        /\ WithoutSpaces(last.preLvc[1]) = WithoutSpaces(last.code))
       => ~last.valid

-----------------------------------------------------------------------------
(* C29 - counter increments under overlapping calls *)

\* C29: when no generate() call is suspended, the counter of a Hotp engine is
\* its first value, 0, plus the number of side-effecting generate() calls that
\* have run to their end, however the calls overlapped.
C29_NoLostIncrement ==
  (kind = "hotp" /\ \A c \in Callers : ~Suspended(c)) => counter = completed

\* Two side-effecting calls that overlapped have both returned.
C29_Witness ==
  /\ kind = "hotp" /\ BothReturned("generate")
  /\ \A c \in Callers : OrElse(inflight[c].se, TRUE)
  /\ inflight["b"].after = "suspended"
  /\ inflight["a"].mf = inflight["b"].mf
  /\ completed >= 2
  /\ counter = completed

-----------------------------------------------------------------------------
(* C30 - termination of the encoding *)

\* C30: the loop of numberToBytes ends for every moving factor an engine
\* hands it: every generate and validate call comes to its end, also with a
\* negative explicit moving factor (Hotp) or a negative time (Totp generate).
C30_EncodingTerminates ==
  last.op \in {"generate", "validate"} => last.status # "diverged"

====
